---- MODULE Spec2Model ----
\* A model of pulltabs (src/app/pulltabs.go): the GitHub webhook handler that
\* verifies a signature, decodes a pull_request event, filters it on a label
\* and posts a Slack message from a detached goroutine.
EXTENDS Integers, Sequences, FiniteSets, TLC

VARIABLES
    config,   \* the notifier value registered as handler (Label, Message, Secret, SlackURL)
    reqs,     \* request id -> the state of the goroutine serving that request
    tasks,    \* the goroutines started by `go s.postSlackMessage`, in spawn order
    call      \* the argument/result record of a direct call of validHMAC

vars == <<config, reqs, tasks, call>>

\* ---------------------------------------------------------------- bounds
\* Requests served (concurrently) in one behaviour.
MaxRequests == 2

\* ---------------------------------------------------------------- text
\* Go strings whose bytes matter are sequences of characters; "" is <<>>.
S_labeled   == <<"l","a","b","e","l","e","d">>
S_unlabeled == <<"u","n">> \o S_labeled
S_open      == <<"o","p","e","n">>
S_closed    == <<"c","l","o","s","e","d">>
S_review    == <<"r","e","v","i","e","w">>
S_awaiting_review == <<"a","w","a","i","t","i","n","g"," ">> \o S_review
S_wip       == <<"w","i","p">>
S_FixBug    == <<"F","i","x"," ","b","u","g">>
S_url       == <<"h","t","t","p",":","/","/","x","/","1">>
S_AddDocs   == <<"A","d","d"," ","d","o","c","s">>
S_url2      == <<"h","t","t","p",":","/","/","x","/","2">>
S_Message   == <<"A"," ","P","u","l","l"," ","R","e","q","u","e","s","t"," ",
                 "r","e","q","u","i","r","e","s"," ">> \o S_review
S_ReviewMe  == <<"R","e","v","i","e","w"," ","m","e"," ","p","l","e","a","s","e">>
S_good      == <<"g","o","o","d">>
S_TaggedWith == <<"P","u","l","l"," ","r","e","q","u","e","s","t"," ",
                  "t","a","g","g","e","d"," ","w","i","t","h"," ">>

\* strings.Contains(s, substr)
Contains(s, substr) ==
    \E i \in 0..(Len(s) - Len(substr)) : SubSeq(s, i + 1, i + Len(substr)) = substr

\* strings.HasPrefix(s, prefix)
HasPrefix(s, prefix) ==
    Len(s) >= Len(prefix) /\ SubSeq(s, 1, Len(prefix)) = prefix

\* ---------------------------------------------------------------- JSON
\* A JSON value is [t, s, m]: t its kind, s the characters of a string, m the
\* members <<key, value>> of an object or the elements of an array.  The two
\* kinds "empty" and "invalid" stand for bytes that are no JSON text at all.
JStr(s)     == [t |-> "string", s |-> s,    m |-> <<>>]
JNum        == [t |-> "number", s |-> <<>>, m |-> <<>>]
JNull       == [t |-> "null",   s |-> <<>>, m |-> <<>>]
JObj(m)     == [t |-> "object", s |-> <<>>, m |-> m]
JArr(m)     == [t |-> "array",  s |-> <<>>, m |-> m]
JEmpty      == [t |-> "empty",  s |-> <<>>, m |-> <<>>]
JInvalid    == [t |-> "invalid", s |-> <<>>, m |-> <<>>]

\* encoding/json matches an object key to a struct field by the field's JSON
\* name, ignoring case (strings.EqualFold).  Fold lower-cases the keys in use.
Fold(k) ==
    CASE k = "State"  -> "state"
      [] k = "STATE"  -> "state"
      [] k = "Action" -> "action"
      [] OTHER        -> k

\* The members of object `m` addressed to the field whose JSON name is `name`.
Matching(m, name) == { i \in 1..Len(m) : Fold(m[i][1]) = Fold(name) }

Last(S) == CHOOSE i \in S : \A j \in S : j <= i

\* Decoding into a Go string field: the last JSON string member wins, null
\* leaves the field alone, a missing member leaves the zero value "".
StringField(m, name) ==
    LET hit == { i \in Matching(m, name) : m[i][2].t = "string" }
    IN  IF hit = {} THEN <<>> ELSE m[Last(hit)][2].s

\* Decoding into a nested struct field: every member holding an object is
\* decoded into the same struct, in order.
RECURSIVE Concat(_, _, _)
Concat(m, idx, i) ==
    IF i > Len(m) THEN <<>>
    ELSE (IF i \in idx THEN m[i][2].m ELSE <<>>) \o Concat(m, idx, i + 1)

StructField(m, name) ==
    Concat(m, { i \in Matching(m, name) : m[i][2].t = "object" }, 1)

\* An UnmarshalTypeError: a member addressed to the field holds a value of a
\* kind other than `want` (null is accepted for every kind of field).
TypeError(m, name, want) ==
    \E i \in Matching(m, name) : m[i][2].t \notin {want, "null"}

\* ---------------------------------------------------------------- pullRequestPost
\* The JSON names of the fields of pullRequestPost.  State carries the tag
\* `jsong:"state"`, which encoding/json does not read: its name is "State".
Tag_Action      == "action"
Tag_Number      == "number"
Tag_PullRequest == "pull_request"
Tag_HTMLURL     == "html_url"
Tag_State       == "State"
Tag_Title       == "title"
Tag_User        == "user"
Tag_Login       == "login"
Tag_Label       == "label"
Tag_Name        == "name"

\* var pr pullRequestPost
ZeroPR == [Action |-> <<>>, State |-> <<>>, Title |-> <<>>, HTMLURL |-> <<>>, LabelName |-> <<>>]

\* json.NewDecoder(bytes.NewReader(body)).Decode(&pr): [err, pr]
Decode(body) ==
    IF body.t \in {"empty", "invalid"} THEN [err |-> TRUE, pr |-> ZeroPR]
    ELSE IF body.t = "null" THEN [err |-> FALSE, pr |-> ZeroPR]
    ELSE IF body.t # "object" THEN [err |-> TRUE, pr |-> ZeroPR]
    ELSE
      LET m  == body.m
          p  == StructField(m, Tag_PullRequest)
          u  == StructField(p, Tag_User)
          l  == StructField(m, Tag_Label)
      IN  [err |-> \/ TypeError(m, Tag_Action, "string")
                   \/ TypeError(m, Tag_Number, "number")
                   \/ TypeError(m, Tag_PullRequest, "object")
                   \/ TypeError(m, Tag_Label, "object")
                   \/ TypeError(p, Tag_HTMLURL, "string")
                   \/ TypeError(p, Tag_State, "string")
                   \/ TypeError(p, Tag_Title, "string")
                   \/ TypeError(p, Tag_User, "object")
                   \/ TypeError(u, Tag_Login, "string")
                   \/ TypeError(l, Tag_Name, "string"),
           pr  |-> [Action    |-> StringField(m, Tag_Action),
                    State     |-> StringField(p, Tag_State),
                    Title     |-> StringField(p, Tag_Title),
                    HTMLURL   |-> StringField(p, Tag_HTMLURL),
                    LabelName |-> StringField(l, Tag_Name)]]

\* ---------------------------------------------------------------- slackMessage
\* m := slackMessage{...} of output
\* A faulty variant of the formatting: title and title link are exchanged.
NewSlackMessage_swapped(s, pr) ==
    [Text        |-> s.Message,
     Attachments |-> << [Text      |-> S_ReviewMe,
                         Color     |-> S_good,
                         Fallback  |-> s.Message,
                         Pretext   |-> S_TaggedWith \o s.Label,
                         Title     |-> pr.HTMLURL,
                         TitleLink |-> pr.Title] >>]

NewSlackMessage(s, pr) ==
    [Text        |-> s.Message,
     Attachments |-> << [Text      |-> S_ReviewMe,
                         Color     |-> S_good,
                         Fallback  |-> s.Message,
                         Pretext   |-> S_TaggedWith \o s.Label,
                         Title     |-> pr.Title,
                         TitleLink |-> pr.HTMLURL] >>]

\* The JSON object json.Encoder writes for an Attachment, keyed by its tags.
EncodeAttachment(a) ==
    JObj(<< <<"fallback",   JStr(a.Fallback)>>,
            <<"color",      JStr(a.Color)>>,
            <<"pretext",    JStr(a.Pretext)>>,
            <<"title",      JStr(a.Title)>>,
            <<"title_link", JStr(a.TitleLink)>>,
            <<"text",       JStr(a.Text)>> >>)

\* The JSON object json.Encoder writes for a slackMessage.
EncodeMessage(m) ==
    JObj(<< <<"text", JStr(m.Text)>>,
            <<"attachments",
              JArr([i \in 1..Len(m.Attachments) |-> EncodeAttachment(m.Attachments[i])])>> >>)

\* make([]byte, 2048): a slice of length (not only capacity) 2048, all zero.
BufferLen == 2048

\* bytes.NewBuffer(buf): a buffer whose unread contents are the bytes of buf.
\* A buffer is [nul, json]: `nul` zero bytes followed by the JSON text written.
NewBuffer(n) == [nul |-> n, json |-> JEmpty]

\* json.NewEncoder(b).Encode(&m): appends the encoding of m to the buffer.
Encode(b, m) == [nul |-> b.nul, json |-> EncodeMessage(m)]

\* output(pr): [err, b].  encErr is the error result of Encode.
output(s, pr, encErr) ==
    LET m == NewSlackMessage(s, pr)
        b == NewBuffer(BufferLen)
    IN  IF encErr THEN [err |-> TRUE,  b |-> NewBuffer(0)]
        ELSE            [err |-> FALSE, b |-> Encode(b, m)]

\* ---------------------------------------------------------------- validHMAC
\* hmac.New(sha1.New, key); mac.Write(msg); mac.Sum(nil): the digest is kept
\* symbolic, one digest per (key, message) pair.
HmacSHA1(key, msg) == [key |-> key, msg |-> msg]

\* hex.EncodeToString writes lower-case digits.
HexEncodeToString(mac) == [mac |-> mac, upper |-> FALSE]

\* The header text a sender computes for `msg` under `key`; "" is <<>>.
EmptyString == <<>>
expectedSig(key, msg) == <<"sha1=", HexEncodeToString(HmacSHA1(key, msg))>>

\* req.Header.Get(name): "" when the header is absent, so an absent header
\* is held as the empty text.
HeaderGet(req, name) == req.Header[name]

\* A faulty variant: mac.Write(body) is missing, the digest is that of the
\* empty message.
validHMAC_unwritten(s, req, body) ==
    IF s.Secret = "" THEN TRUE
    ELSE LET sig == HeaderGet(req, "X-Hub-Signature")
         IN  IF sig = EmptyString THEN FALSE
             ELSE expectedSig(s.Secret, JEmpty) = sig

\* A faulty variant: an absent header is let through.
validHMAC_absentAccepted(s, req, body) ==
    IF s.Secret = "" THEN TRUE
    ELSE LET sig == HeaderGet(req, "X-Hub-Signature")
         IN  IF sig = EmptyString THEN TRUE
             ELSE expectedSig(s.Secret, body) = sig

\* A faulty variant: an empty secret does not switch the check off; the MAC
\* is computed with the empty key.
validHMAC_emptyKey(s, req, body) ==
    LET sig == HeaderGet(req, "X-Hub-Signature")
    IN  IF sig = EmptyString THEN FALSE
        ELSE expectedSig(s.Secret, body) = sig

validHMAC(s, req, body) ==
    IF s.Secret = "" THEN TRUE
    ELSE LET sig == HeaderGet(req, "X-Hub-Signature")
         IN  IF sig = EmptyString THEN FALSE
             ELSE expectedSig(s.Secret, body) = sig

\* ---------------------------------------------------------------- payload
\* A faulty variant: the label is compared for equality.
shouldNotify_exactLabel(s, pr) ==
    /\ pr.LabelName = s.Label
    /\ pr.State = S_open
    /\ pr.Action = S_labeled

\* A faulty variant: an event without a label name never matches.
shouldNotify_requiresLabel(s, pr) ==
    /\ pr.LabelName # <<>>
    /\ Contains(pr.LabelName, s.Label)
    /\ pr.State = S_open
    /\ pr.Action = S_labeled

\* The condition of the `if` that starts the delivery goroutine.
shouldNotify(s, pr) ==
    /\ Contains(pr.LabelName, s.Label)
    /\ pr.State = S_open
    /\ pr.Action = S_labeled

\* payload from its entry to the end of the pull_request block: the statuses
\* written, the checks evaluated (in order), the events handed to
\* `go s.postSlackMessage`, and whether control reaches the final WriteHeader.
Result(written, trace, spawn, next) ==
    [written |-> written, trace |-> trace, spawn |-> spawn, next |-> next]

\* A faulty variant of the pull_request block: the goroutine is started for
\* every event that decodes, the filter deciding nothing.
pullRequest_unfiltered(s, body) ==
    LET d == Decode(body)
    IN  IF d.err
          THEN Result(<<400>>, <<"read", "sig", "event", "decode">>, <<>>, "done")
          ELSE Result(<<>>, <<"read", "sig", "event", "decode", "filter">>, <<d.pr>>, "respond")

\* A faulty variant of the pull_request block: the `return` after the
\* "Failed to parse JSON" error is missing.
pullRequest_noReturn(s, body) ==
    LET d == Decode(body)
    IN  IF d.err
          THEN Result(<<400>>, <<"read", "sig", "event", "decode">>, <<>>, "respond")
        ELSE IF shouldNotify(s, d.pr)
          THEN Result(<<>>, <<"read", "sig", "event", "decode", "filter">>, <<d.pr>>, "respond")
        ELSE Result(<<>>, <<"read", "sig", "event", "decode", "filter">>, <<>>, "respond")

\* A faulty variant of the pull_request block: a body that does not decode is
\* skipped like an event the filter rejects.
pullRequest_swallows(s, body) ==
    LET d == Decode(body)
    IN  IF d.err
          THEN Result(<<>>, <<"read", "sig", "event", "decode">>, <<>>, "respond")
        ELSE IF shouldNotify(s, d.pr)
          THEN Result(<<>>, <<"read", "sig", "event", "decode", "filter">>, <<d.pr>>, "respond")
        ELSE Result(<<>>, <<"read", "sig", "event", "decode", "filter">>, <<>>, "respond")

\* The block `if eventType == "pull_request" { ... }` of payload.
pullRequest(s, body) ==
    LET d == Decode(body)
    IN  IF d.err
          THEN Result(<<400>>, <<"read", "sig", "event", "decode">>, <<>>, "done")
        ELSE IF shouldNotify(s, d.pr)
          THEN Result(<<>>, <<"read", "sig", "event", "decode", "filter">>, <<d.pr>>, "respond")
        ELSE Result(<<>>, <<"read", "sig", "event", "decode", "filter">>, <<>>, "respond")

\* A faulty variant: the event type is not checked, every type but
\* pull_request is handled like ping.
payload_noEventCheck(s, req) ==
    LET body      == req.Body
        eventType == HeaderGet(req, "X-GitHub-Event")
    IN  IF req.ReadErr
          THEN Result(<<500>>, <<"read">>, <<>>, "done")
        ELSE IF ~validHMAC(s, req, body)
          THEN Result(<<401>>, <<"read", "sig">>, <<>>, "done")
        ELSE IF eventType = "pull_request"
          THEN pullRequest(s, body)
        ELSE Result(<<>>, <<"read", "sig", "event">>, <<>>, "respond")

\* A faulty variant: the body is decoded and filtered for ping as well.
payload_decodesPing(s, req) ==
    LET body      == req.Body
        eventType == HeaderGet(req, "X-GitHub-Event")
    IN  IF req.ReadErr
          THEN Result(<<500>>, <<"read">>, <<>>, "done")
        ELSE IF ~validHMAC(s, req, body)
          THEN Result(<<401>>, <<"read", "sig">>, <<>>, "done")
        ELSE IF eventType # "ping" /\ eventType # "pull_request"
          THEN Result(<<400>>, <<"read", "sig", "event">>, <<>>, "done")
        ELSE pullRequest(s, body)

\* A faulty variant: the event type is checked before the signature.
payload_eventFirst(s, req) ==
    LET body      == req.Body
        eventType == HeaderGet(req, "X-GitHub-Event")
    IN  IF req.ReadErr
          THEN Result(<<500>>, <<"read">>, <<>>, "done")
        ELSE IF eventType # "ping" /\ eventType # "pull_request"
          THEN Result(<<400>>, <<"read", "event">>, <<>>, "done")
        ELSE IF ~validHMAC(s, req, body)
          THEN Result(<<401>>, <<"read", "event", "sig">>, <<>>, "done")
        ELSE IF eventType = "pull_request"
          THEN pullRequest(s, body)
        ELSE Result(<<>>, <<"read", "sig", "event">>, <<>>, "respond")

payload(s, req) ==
    LET body      == req.Body
        eventType == HeaderGet(req, "X-GitHub-Event")
    IN  IF req.ReadErr
          THEN Result(<<500>>, <<"read">>, <<>>, "done")
        ELSE IF ~validHMAC(s, req, body)
          THEN Result(<<401>>, <<"read", "sig">>, <<>>, "done")
        ELSE IF eventType # "ping" /\ eventType # "pull_request"
          THEN Result(<<400>>, <<"read", "sig", "event">>, <<>>, "done")
        ELSE IF eventType = "pull_request"
          THEN pullRequest(s, body)
        ELSE Result(<<>>, <<"read", "sig", "event">>, <<>>, "respond")

\* ---------------------------------------------------------------- postSlackMessage
\* A delivery goroutine: the request it was started for, its copy of pr, its
\* position, the bodies it has handed to client.Post, how often it closed a
\* response body, the response it got and its log lines.
NewTask(r, pr) ==
    [req |-> r, pr |-> pr, pc |-> "spawned", sent |-> <<>>, closed |-> 0,
     resp |-> "none", log |-> <<>>]

\* postSlackMessage from its entry to the moment client.Post is issued.
postSlackMessage(s, t, encErr) ==
    LET o == output(s, t.pr, encErr)
    IN  IF o.err
          THEN [t EXCEPT !.pc = "done",
                         !.log = t.log \o <<"Posting Slack message", "Failed to create message">>]
          ELSE [t EXCEPT !.pc = "posting",
                         !.sent = Append(t.sent, o.b),
                         !.log = Append(t.log, "Posting Slack message")]

\* client.Post returns: an error, or a response whose status the code never
\* reads; the rest of postSlackMessage follows.
PostOutcomes == {"error", "2xx", "non2xx"}

\* A faulty variant: a failed POST (transport error or non-2xx answer) sends
\* the task back to try once more.
postReturn_retries(t, outcome) ==
    IF outcome # "2xx" /\ Len(t.sent) < 2
      THEN [t EXCEPT !.pc = "spawned", !.log = Append(t.log, "Failed to post Slack message")]
      ELSE [t EXCEPT !.pc = "done", !.resp = outcome, !.closed = t.closed + 1]

\* A faulty variant: the response body is closed only after a 2xx answer.
postReturn_leaks(t, outcome) ==
    IF outcome = "error"
      THEN [t EXCEPT !.pc = "done", !.log = Append(t.log, "Failed to post Slack message")]
      ELSE [t EXCEPT !.pc = "done", !.resp = outcome,
                     !.closed = IF outcome = "2xx" THEN t.closed + 1 ELSE t.closed]

postReturn(t, outcome) ==
    IF outcome = "error"
      THEN [t EXCEPT !.pc = "done", !.log = Append(t.log, "Failed to post Slack message")]
      ELSE [t EXCEPT !.pc = "done", !.resp = outcome, !.closed = t.closed + 1]

\* ---------------------------------------------------------------- ServeHTTP
P_root      == <<"/">>
P_payload   == <<"/","p","a","y","l","o","a","d">>
P_payload_x == P_payload \o <<"/","g","h">>
P_other     == <<"/","x">>

\* A faulty variant of the routing: the payload branch does not look at the
\* method.
route_anyMethod(req) ==
    IF HasPrefix(req.Path, P_payload) THEN "payload"
    ELSE IF req.Path = P_root THEN "status"
    ELSE "notfound"

\* The branch ServeHTTP takes.
route(req) ==
    IF HasPrefix(req.Path, P_payload) /\ req.Method = "POST" THEN "payload"
    ELSE IF req.Path = P_root THEN "status"
    ELSE "notfound"

\* status: it sets two headers and, unless the method is HEAD, renders the
\* page; it never calls WriteHeader, so net/http answers 200.
status(s, req) ==
    Result(<<200>>, IF req.Method # "HEAD" THEN <<"page">> ELSE <<>>, <<>>, "done")

\* The end of payload, the success log line and WriteHeader(200), follows at
\* once when payload started no goroutine: nothing can run in between that
\* the handler could observe.
complete(res) ==
    IF res.next = "respond" /\ res.spawn = <<>>
      THEN Result(Append(res.written, 200), res.trace, <<>>, "done")
      ELSE res

\* The whole of ServeHTTP, to its return or, when payload has started a
\* goroutine, to the statement after `go`.
serve(s, req) ==
    CASE route(req) = "payload"  -> complete(payload(s, req))
      [] route(req) = "status"   -> status(s, req)
      [] OTHER                   -> Result(<<404>>, <<>>, <<>>, "done")

\* ---------------------------------------------------------------- inputs
Headers(sig, ev) ==
    [n \in {"X-Hub-Signature", "X-GitHub-Event"} |->
        IF n = "X-Hub-Signature" THEN sig ELSE ev]

Request(method, path, sig, ev, body, readErr) ==
    [Method |-> method, Path |-> path, Header |-> Headers(sig, ev),
     Body |-> body, ReadErr |-> readErr]

\* A pull_request event body as GitHub sends it.
PRBody(action, state, label) ==
    JObj(<< <<"action", JStr(action)>>,
            <<"number", JNum>>,
            <<"pull_request",
              JObj(<< <<"html_url", JStr(S_url)>>,
                      <<"state", JStr(state)>>,
                      <<"title", JStr(S_FixBug)>>,
                      <<"user", JObj(<< <<"login", JStr(S_wip)>> >>)>> >>)>> >>
         \o label)

LabelMember(name) == << <<"label", JObj(<< <<"name", JStr(name)>> >>)>> >>

B_match     == PRBody(S_labeled,   S_open,   LabelMember(S_awaiting_review))
B_closed    == PRBody(S_labeled,   S_closed, LabelMember(S_awaiting_review))
B_unlabeled == PRBody(S_unlabeled, S_open,   LabelMember(S_awaiting_review))
B_wip       == PRBody(S_labeled,   S_open,   LabelMember(S_wip))
B_nolabel   == PRBody(S_labeled,   S_open,   <<>>)
B_typeerr   == JObj(<< <<"action", JNum>> >>)
B_null      == JNull
B_invalid   == JInvalid

\* Another pull request, labeled like B_match.
B_other ==
    JObj(<< <<"action", JStr(S_labeled)>>,
            <<"pull_request",
              JObj(<< <<"html_url", JStr(S_url2)>>,
                      <<"state", JStr(S_open)>>,
                      <<"title", JStr(S_AddDocs)>> >>)>> >>
         \o LabelMember(S_awaiting_review))

Bodies == <<B_match, B_closed, B_unlabeled, B_wip, B_nolabel, B_typeerr, B_null, B_invalid>>

\* The key the sender signs with.
SenderKey == "s3cret"
Sign(body) == expectedSig(SenderKey, body)

\* The requests a behaviour draws from; a request goroutine refers to its
\* request by its position in this sequence.
Requests ==
    [i \in 1..Len(Bodies) |-> Request("POST", P_payload, Sign(Bodies[i]), "pull_request", Bodies[i], FALSE)]
    \o << Request("POST", P_payload_x, Sign(B_match),   "ping", B_match,   FALSE),
          Request("POST", P_payload_x, Sign(B_invalid), "ping", B_invalid, FALSE),
          Request("POST", P_payload, EmptyString,   "pull_request",  B_other,  FALSE),
          Request("POST", P_payload, EmptyString,   "issue_comment", B_match,  FALSE),
          Request("POST", P_payload, Sign(B_match), "pull_request",  B_closed, FALSE),
          Request("POST", P_payload, Sign(B_match), "issue_comment", B_match,  FALSE),
          Request("POST", P_payload, EmptyString,   "pull_request",  B_match,  TRUE),
          Request("GET",  P_payload, Sign(B_match), "pull_request",  B_match,  FALSE),
          Request("GET",  P_root,    EmptyString, "", JEmpty, FALSE),
          Request("HEAD", P_root,    EmptyString, "", JEmpty, FALSE),
          Request("POST", P_other,   EmptyString, "", JEmpty, FALSE),
          Request("POST", P_root,    EmptyString, "", JEmpty, FALSE) >>

\* handler := notifier{...}: init registers Label "awaiting review" with no
\* Secret and no SlackURL; the other values are notifiers with a secret or
\* another watched label.
Notifier(label, secret) ==
    [Label |-> label, Message |-> S_Message, Secret |-> secret, SlackURL |-> ""]

Configs ==
    { Notifier(S_awaiting_review, ""),
      Notifier(S_awaiting_review, SenderKey),
      Notifier(S_review, SenderKey) }

\* ---------------------------------------------------------------- state machine
RequestIds == 1..MaxRequests

\* A request goroutine: its position, its request (0: none yet), the branch
\* ServeHTTP took, the statuses written and the checks payload evaluated.
Idle == [pc |-> "idle", req |-> 0, route |-> "none", written |-> <<>>, trace |-> <<>>]

NoCall == [body |-> JEmpty, sig |-> EmptyString, done |-> FALSE, result |-> FALSE]

Init ==
    /\ config \in Configs
    /\ reqs = [r \in RequestIds |-> Idle]
    /\ tasks = <<>>
    /\ call = NoCall

\* net/http calls ServeHTTP on a goroutine of its own for request r.
ServeHTTP(r, n) ==
    /\ reqs[r].pc = "idle"
    /\ \A q \in RequestIds : q < r => reqs[q].pc # "idle"
    /\ LET req == Requests[n]
           res == serve(config, req)
       IN  /\ reqs' = [reqs EXCEPT ![r] = [pc |-> res.next, req |-> n, route |-> route(req),
                                           written |-> res.written, trace |-> res.trace]]
           /\ tasks' = tasks \o [i \in 1..Len(res.spawn) |-> NewTask(r, res.spawn[i])]
    /\ UNCHANGED <<config, call>>

\* A faulty variant: the handler joins its delivery goroutines before it
\* answers.
WriteHeaderOK_joins(r) ==
    /\ reqs[r].pc = "respond"
    /\ \A i \in 1..Len(tasks) : tasks[i].req = r => tasks[i].pc = "done"
    /\ reqs' = [reqs EXCEPT ![r].pc = "done", ![r].written = Append(@, 200)]
    /\ UNCHANGED <<config, tasks, call>>

\* payload's last two statements after it has started a goroutine: the
\* success log line and WriteHeader(200).
WriteHeaderOK(r) ==
    /\ reqs[r].pc = "respond"
    /\ reqs' = [reqs EXCEPT ![r].pc = "done", ![r].written = Append(@, 200)]
    /\ UNCHANGED <<config, tasks, call>>

\* A faulty variant: the goroutines serialize into one buffer they share, so
\* a goroutine that writes its message replaces what a goroutine still in
\* client.Post is sending.
PostSlackMessage_sharedBuffer(i, encErr) ==
    /\ tasks[i].pc = "spawned"
    /\ LET t == postSlackMessage(config, tasks[i], encErr)
       IN  tasks' = [j \in 1..Len(tasks) |->
                        IF j = i THEN t
                        ELSE IF tasks[j].pc = "posting" /\ t.pc = "posting"
                          THEN [tasks[j] EXCEPT !.sent = t.sent]
                        ELSE tasks[j]]
    /\ UNCHANGED <<config, reqs, call>>

\* A delivery goroutine runs up to its call of client.Post.
PostSlackMessage(i, encErr) ==
    /\ tasks[i].pc = "spawned"
    /\ tasks' = [tasks EXCEPT ![i] = postSlackMessage(config, tasks[i], encErr)]
    /\ UNCHANGED <<config, reqs, call>>

\* client.Post returns to a delivery goroutine, which then finishes.
PostReturn(i, outcome) ==
    /\ tasks[i].pc = "posting"
    /\ tasks' = [tasks EXCEPT ![i] = postReturn(tasks[i], outcome)]
    /\ UNCHANGED <<config, reqs, call>>

Next ==
    \/ \E r \in RequestIds, n \in 1..Len(Requests) : ServeHTTP(r, n)
    \/ \E r \in RequestIds : WriteHeaderOK(r)
    \/ \E i \in 1..Len(tasks), encErr \in BOOLEAN : PostSlackMessage(i, encErr)
    \/ \E i \in 1..Len(tasks), outcome \in PostOutcomes : PostReturn(i, outcome)

Spec == Init /\ [][Next]_vars

\* The scheduling the runtime provides: a handler that has started a goroutine
\* goes on to answer, and a started goroutine runs up to its call of
\* client.Post. Nothing makes client.Post return: postSlackMessage sets no
\* deadline on the client or on the call, so PostReturn happens only if the
\* endpoint answers or the transport fails.
Fairness ==
    /\ WF_vars(\E r \in RequestIds : WriteHeaderOK(r))
    /\ WF_vars(\E i \in 1..Len(tasks), encErr \in BOOLEAN : PostSlackMessage(i, encErr))

SpecFair == Init /\ [][Next]_vars /\ Fairness

\* The program with a notifier whose watched label is the empty string.
InitEmptyLabel ==
    /\ config = Notifier(<<>>, SenderKey)
    /\ reqs = [r \in RequestIds |-> Idle]
    /\ tasks = <<>>
    /\ call = NoCall

SpecEmptyLabel == InitEmptyLabel /\ [][Next]_vars

\* ---------------------------------------------------------------- properties
\* The request that goroutine r serves.
Req(r) == Requests[reqs[r].req]

Started(r) == reqs[r].pc # "idle"

\* r entered the payload pipeline.
InPayload(r) == Started(r) /\ reqs[r].route = "payload"

\* The delivery goroutines started for request r.
TasksOf(r) == { i \in 1..Len(tasks) : tasks[i].req = r }

\* The body was read and the signature check passed.
SigChecked(r) == ~Req(r).ReadErr /\ validHMAC(config, Req(r), Req(r).Body)

EventTypeOf(r) == Req(r).Header["X-GitHub-Event"]

\* A qualifying request: body read, signature valid, event type
\* pull_request, body decodes, filter holds.
IsQualifying(s, req) ==
    /\ ~req.ReadErr
    /\ validHMAC(s, req, req.Body)
    /\ req.Header["X-GitHub-Event"] = "pull_request"
    /\ ~Decode(req.Body).err
    /\ shouldNotify(s, Decode(req.Body).pr)

\* The positions in Requests of the requests that qualify, per notifier.
QualifyingRequests ==
    [s \in Configs |-> { n \in 1..Len(Requests) : IsQualifying(s, Requests[n]) }]

Qualifying(r) == reqs[r].req \in QualifyingRequests[config]

\* C1: every payload request has spawned exactly one delivery task if it is
\* qualifying and none otherwise, in every interleaving of requests; requests
\* outside the payload pipeline spawn none.
C1_OneTaskIffQualifying ==
    \A r \in RequestIds :
        Cardinality(TasksOf(r)) = IF InPayload(r) /\ Qualifying(r) THEN 1 ELSE 0

\* Two concurrent payload requests, one qualifying with its single task and
\* one non-qualifying with none.
C1_Witness ==
    \E r1, r2 \in RequestIds :
        /\ InPayload(r1) /\ Qualifying(r1) /\ Cardinality(TasksOf(r1)) = 1
        /\ InPayload(r2) /\ ~Qualifying(r2) /\ reqs[r2].pc = "done"
        /\ Req(r2).Body = B_closed /\ TasksOf(r2) = {}

\* C2: a payload request writes no status before it ends and exactly one
\* status, among 200, 400, 401 and 500, when it ends; until then its next
\* step is always possible.
C2_ExactlyOneStatus ==
    \A r \in RequestIds :
        InPayload(r) =>
            /\ reqs[r].pc \in {"respond", "done"}
            /\ reqs[r].pc = "respond" => reqs[r].written = <<>> /\ ENABLED WriteHeaderOK(r)
            /\ reqs[r].pc = "done" =>
                  /\ Len(reqs[r].written) = 1
                  /\ reqs[r].written[1] \in {200, 400, 401, 500}

\* Two finished payload requests, one answered 401 and one answered 200.
C2_Witness ==
    \E r1, r2 \in RequestIds :
        /\ InPayload(r1) /\ reqs[r1].pc = "done" /\ reqs[r1].written = <<401>>
        /\ InPayload(r2) /\ reqs[r2].pc = "done" /\ reqs[r2].written = <<200>>

\* C3: the request of every delivery task is answered 200, and its
\* WriteHeader step is possible in every state of the delivery task (spawned,
\* posting, failed, finished): the request never waits for delivery.
C3_ResponseIndependentOfDelivery ==
    \A i \in 1..Len(tasks) :
        LET r == tasks[i].req
        IN  /\ reqs[r].pc \in {"respond", "done"}
            /\ reqs[r].pc = "respond" => ENABLED WriteHeaderOK(r)
            /\ reqs[r].pc = "done" => reqs[r].written = <<200>>

\* Both orders at once: one delivery finished before its request was
\* answered, another request answered while its delivery is still posting.
C3_Witness ==
    \E i, j \in 1..Len(tasks) :
        /\ tasks[i].pc = "done" /\ reqs[tasks[i].req].pc = "respond"
        /\ tasks[j].pc = "posting" /\ reqs[tasks[j].req].pc = "done"
        /\ reqs[tasks[j].req].written = <<200>>

\* C4: a delivery task hands at most one body to client.Post in its life:
\* none before it posts or when serialization failed, exactly one once it
\* posts, whatever the POST returned.
SerializationFailed(t) ==
    \E k \in 1..Len(t.log) : t.log[k] = "Failed to create message"

C4_AtMostOnePost ==
    \A i \in 1..Len(tasks) :
        LET t == tasks[i]
        IN  /\ Len(t.sent) <= 1
            /\ t.pc = "spawned" => Len(t.sent) = 0
            /\ t.pc = "posting" => Len(t.sent) = 1
            /\ t.pc = "done" => Len(t.sent) = IF SerializationFailed(t) THEN 0 ELSE 1

\* A task that got a transport error and one that got a non-2xx response,
\* both finished after a single POST.
C4_Witness ==
    \E i, j \in 1..Len(tasks) :
        /\ tasks[i].pc = "done" /\ tasks[i].resp = "non2xx" /\ Len(tasks[i].sent) = 1
        /\ tasks[j].pc = "done" /\ tasks[j].resp = "none"
        /\ ~SerializationFailed(tasks[j]) /\ Len(tasks[j].sent) = 1

\* ---------------------------------------------------------------- validHMAC alone
\* validHMAC called directly, on every combination of a secret, a body and a
\* signature header drawn from these sets.
OtherKey == "other"

HmacBodies == {B_match, B_closed, B_invalid, JEmpty}

HmacSigs ==
    {EmptyString}
    \cup { expectedSig(k, b) : k \in {SenderKey, OtherKey}, b \in HmacBodies }
    \cup { <<"sha1=", [mac |-> HmacSHA1(SenderKey, B_match), upper |-> TRUE]>>,
           <<"sha256=", HexEncodeToString(HmacSHA1(SenderKey, B_match))>>,
           <<HexEncodeToString(HmacSHA1(SenderKey, B_match))>> }

InitHMAC ==
    /\ config \in { Notifier(S_awaiting_review, k) : k \in {"", SenderKey, OtherKey} }
    /\ reqs = [r \in RequestIds |-> Idle]
    /\ tasks = <<>>
    /\ call \in [body : HmacBodies, sig : HmacSigs, done : {FALSE}, result : {FALSE}]

CallValidHMAC ==
    /\ ~call.done
    /\ call' = [call EXCEPT
                  !.done = TRUE,
                  !.result = validHMAC(config,
                                       Request("POST", P_payload, call.sig, "pull_request",
                                               call.body, FALSE),
                                       call.body)]
    /\ UNCHANGED <<config, reqs, tasks>>

NextHMAC == CallValidHMAC

SpecHMAC == InitHMAC /\ [][NextHMAC]_vars

\* "sha1=" followed by the lower-case hex HMAC of body b under key k.
SignatureOf(k, b) == <<"sha1=", [mac |-> [key |-> k, msg |-> b], upper |-> FALSE]>>

\* C5: validHMAC is true for every body and header when the secret is empty;
\* with a non-empty secret it is false for an absent header, true for the
\* signature of that body under that secret, false for the signature of any
\* other body.
C5_ValidHMAC ==
    call.done =>
        /\ config.Secret = "" => call.result
        /\ config.Secret # "" /\ call.sig = EmptyString => ~call.result
        /\ config.Secret # "" /\ call.sig = SignatureOf(config.Secret, call.body) => call.result
        /\ config.Secret # ""
             /\ (\E b \in HmacBodies : b # call.body /\ call.sig = SignatureOf(config.Secret, b))
             => ~call.result

\* validHMAC has accepted the genuine signature of a pull_request body under a
\* non-empty secret.
C5_Witness ==
    /\ call.done /\ call.result
    /\ config.Secret # "" /\ call.body = B_match
    /\ call.sig = SignatureOf(config.Secret, B_match)

\* ---------------------------------------------------------------- properties (continued)
InTrace(r, step) == \E k \in 1..Len(reqs[r].trace) : reqs[r].trace[k] = step

SigOf(r) == Req(r).Header["X-Hub-Signature"]

\* C6 as stated: every payload request whose event type is neither ping nor
\* pull_request is answered 400 and its body is never decoded.
C6_UnsupportedEventAlways400 ==
    \A r \in RequestIds :
        InPayload(r) /\ EventTypeOf(r) \notin {"ping", "pull_request"} =>
            /\ reqs[r].written = <<400>>
            /\ ~InTrace(r, "decode")

\* C6 amended: the body of such a request is never decoded, and it is
\* answered 400 if its body was read and its signature check passed.
C6_UnsupportedEvent400AfterSignature ==
    \A r \in RequestIds :
        InPayload(r) /\ EventTypeOf(r) \notin {"ping", "pull_request"} =>
            /\ ~InTrace(r, "decode")
            /\ SigChecked(r) => reqs[r].pc = "done" /\ reqs[r].written = <<400>>

\* An issue_comment request with a valid signature under a non-empty secret
\* has been answered 400.
C6_Witness ==
    \E r \in RequestIds :
        /\ InPayload(r) /\ EventTypeOf(r) = "issue_comment"
        /\ config.Secret # "" /\ SigOf(r) = SignatureOf(config.Secret, Req(r).Body)
        /\ reqs[r].written = <<400>> /\ ~InTrace(r, "decode")

\* The header is missing, or is not the signature of the body.
BadSignature(r) ==
    SigOf(r) = EmptyString \/ SigOf(r) # SignatureOf(config.Secret, Req(r).Body)

\* C7 as stated: with a non-empty secret, a payload request whose signature
\* header is missing or does not match is answered 401, its event type is
\* never inspected, its body never decoded and no delivery task spawned.
C7_BadSignatureAlways401 ==
    \A r \in RequestIds :
        InPayload(r) /\ config.Secret # "" /\ BadSignature(r) =>
            /\ reqs[r].written = <<401>>
            /\ ~InTrace(r, "event")
            /\ ~InTrace(r, "decode")
            /\ TasksOf(r) = {}

\* C7 amended: the same, the answer being 401 when the body was read.
C7_BadSignature401WhenRead ==
    \A r \in RequestIds :
        InPayload(r) /\ config.Secret # "" /\ BadSignature(r) =>
            /\ ~Req(r).ReadErr => reqs[r].pc = "done" /\ reqs[r].written = <<401>>
            /\ ~InTrace(r, "event")
            /\ ~InTrace(r, "decode")
            /\ TasksOf(r) = {}

\* Under a non-empty secret, one request without the header and one whose
\* header signs another body have both been answered 401.
C7_Witness ==
    \E r1, r2 \in RequestIds :
        /\ config.Secret # ""
        /\ InPayload(r1) /\ SigOf(r1) = EmptyString /\ ~Req(r1).ReadErr
        /\ reqs[r1].written = <<401>>
        /\ InPayload(r2) /\ SigOf(r2) = SignatureOf(config.Secret, B_match)
        /\ Req(r2).Body = B_closed /\ reqs[r2].written = <<401>>

\* What the sender wrote in the body, read by exact key.
Member(v, key) ==
    IF v.t = "object" /\ \E i \in 1..Len(v.m) : v.m[i][1] = key
      THEN v.m[CHOOSE i \in 1..Len(v.m) : v.m[i][1] = key][2]
      ELSE JNull
TextOf(v) == IF v.t = "string" THEN v.s ELSE <<>>
SentAction(b) == TextOf(Member(b, "action"))
SentState(b)  == TextOf(Member(Member(b, "pull_request"), "state"))
SentLabel(b)  == TextOf(Member(Member(b, "label"), "name"))

\* C8: for every request that reaches the filter, a delivery task is started
\* if and only if the action sent is "labeled", the pull-request state sent is
\* "open" and the label name sent contains the watched label; with the
\* watched label "awaiting review" it is started for (labeled, open,
\* "awaiting review") and not for state closed, action unlabeled or label wip.
C8_FilterDecision ==
    \A r \in RequestIds :
        InPayload(r) /\ InTrace(r, "filter") =>
            LET b == Req(r).Body
            IN  /\ TasksOf(r) # {} <=>
                      /\ SentAction(b) = S_labeled
                      /\ SentState(b) = S_open
                      /\ Contains(SentLabel(b), config.Label)
                /\ config.Label = S_awaiting_review =>
                      /\ b = B_match => TasksOf(r) # {}
                      /\ b \in {B_closed, B_unlabeled, B_wip} => TasksOf(r) = {}

\* Watching "review": the event labelled "awaiting review" was passed by the
\* filter and the event labelled "wip" was not.
C8_Witness ==
    \E r1, r2 \in RequestIds :
        /\ config.Label = S_review
        /\ InTrace(r1, "filter") /\ Req(r1).Body = B_match /\ TasksOf(r1) # {}
        /\ InTrace(r2, "filter") /\ Req(r2).Body = B_wip /\ TasksOf(r2) = {}

\* Decoding the bytes of a POST body back into a slackMessage: bytes that do
\* not start a JSON value (a NUL byte before it) are an error.
DecodeAttachment(v) ==
    [Title |-> TextOf(Member(v, "title")), TitleLink |-> TextOf(Member(v, "title_link"))]

DecodeSlackMessage(b) ==
    IF b.nul > 0 \/ b.json.t # "object"
      THEN [err |-> TRUE, msg |-> [Attachments |-> <<>>]]
      ELSE LET a == Member(b.json, "attachments")
           IN  [err |-> FALSE,
                msg |-> [Attachments |-> [i \in 1..Len(a.m) |-> DecodeAttachment(a.m[i])]]]

\* C9: every body a delivery task POSTs is exactly the serialized message,
\* and decodes back to one attachment with the title and the title link of
\* the message that was formatted.
C9_PostedBodyIsSerializedMessage ==
    \A i \in 1..Len(tasks) : \A k \in 1..Len(tasks[i].sent) :
        LET m == NewSlackMessage(config, tasks[i].pr)
            d == DecodeSlackMessage(tasks[i].sent[k])
        IN  /\ tasks[i].sent[k] = [nul |-> 0, json |-> EncodeMessage(m)]
            /\ ~d.err
            /\ Len(d.msg.Attachments) = 1
            /\ Len(m.Attachments) = 1
            /\ d.msg.Attachments[1].Title = m.Attachments[1].Title
            /\ d.msg.Attachments[1].TitleLink = m.Attachments[1].TitleLink

\* C10: a payload request whose body was read, whose signature is valid and
\* whose event type is ping is answered 200 and nothing else, whatever its
\* body; the body is not decoded and no delivery task is spawned.
C10_Ping ==
    \A r \in RequestIds :
        InPayload(r) /\ SigChecked(r) /\ EventTypeOf(r) = "ping" =>
            /\ ~InTrace(r, "decode")
            /\ TasksOf(r) = {}
            /\ reqs[r].pc \in {"respond", "done"}
            /\ reqs[r].pc = "respond" => reqs[r].written = <<>>
            /\ reqs[r].pc = "done" => reqs[r].written = <<200>>

\* Under a non-empty secret, a signed ping whose body is not JSON and a signed
\* ping carrying a qualifying body have both been answered 200.
C10_Witness ==
    \E r1, r2 \in RequestIds :
        /\ config.Secret # ""
        /\ InPayload(r1) /\ EventTypeOf(r1) = "ping" /\ Req(r1).Body = B_invalid
        /\ SigOf(r1) = SignatureOf(config.Secret, B_invalid) /\ reqs[r1].written = <<200>>
        /\ InPayload(r2) /\ EventTypeOf(r2) = "ping" /\ Req(r2).Body = B_match
        /\ reqs[r2].written = <<200>> /\ TasksOf(r2) = {}

\* The positions in Requests of the requests whose body does not decode.
Undecodable == { n \in 1..Len(Requests) : Decode(Requests[n].Body).err }

\* The bodies among the inputs that are no JSON object of the expected types.
MalformedBodies == {B_invalid, B_typeerr}

\* C11: a payload request with a valid signature and event type pull_request
\* is answered 400 when its body does not decode and 200 when its body
\* decodes but the filter rejects it; neither spawns a delivery task, and a
\* malformed body is never answered 200 nor a filtered one 400.
C11_DecodeErrorVersusFiltered ==
    \A r \in RequestIds :
        InPayload(r) /\ SigChecked(r) /\ EventTypeOf(r) = "pull_request" =>
            /\ Req(r).Body \in MalformedBodies <=> reqs[r].req \in Undecodable
            /\ reqs[r].req \in Undecodable =>
                  /\ reqs[r].pc = "done" /\ reqs[r].written = <<400>>
                  /\ ~InTrace(r, "filter") /\ TasksOf(r) = {}
            /\ reqs[r].req \notin Undecodable /\ ~Qualifying(r) =>
                  /\ reqs[r].pc = "done" /\ reqs[r].written = <<200>>
                  /\ InTrace(r, "filter") /\ TasksOf(r) = {}

\* Under a non-empty secret, a signed pull_request whose body has an action
\* of the wrong type was answered 400 and a signed one for a closed pull
\* request was answered 200, neither with a delivery task.
C11_Witness ==
    \E r1, r2 \in RequestIds :
        /\ config.Secret # ""
        /\ InPayload(r1) /\ EventTypeOf(r1) = "pull_request" /\ Req(r1).Body = B_typeerr
        /\ SigOf(r1) = SignatureOf(config.Secret, B_typeerr)
        /\ reqs[r1].written = <<400>> /\ TasksOf(r1) = {}
        /\ InPayload(r2) /\ EventTypeOf(r2) = "pull_request" /\ Req(r2).Body = B_closed
        /\ SigOf(r2) = SignatureOf(config.Secret, B_closed)
        /\ reqs[r2].written = <<200>> /\ TasksOf(r2) = {}

\* C12: every spawned delivery task eventually terminates, even when the
\* endpoint never answers, so live delivery tasks do not accumulate.
C12_DeliveryTaskTerminates ==
    \A i \in RequestIds :
        (Len(tasks) >= i) ~> (Len(tasks) >= i /\ tasks[i].pc = "done")

\* The first eight bytes of the path of r's request are "/payload".
PathStartsWithPayload(r) ==
    /\ Len(Req(r).Path) >= 8
    /\ \A k \in 1..8 : Req(r).Path[k] = P_payload[k]

\* The payload pipeline ran for r: it evaluated its first check.
EnteredPayload(r) == reqs[r].trace # <<>> /\ reqs[r].trace[1] = "read"

\* C13: ServeHTTP takes exactly one of three branches: the payload pipeline
\* iff the method is POST and the path starts with "/payload"; otherwise the
\* status handler iff the path is exactly "/", whatever the method; otherwise
\* 404. A request to "/payload" with another method gets 404 and never enters
\* the payload pipeline.
C13_Routing ==
    \A r \in RequestIds :
        Started(r) =>
            LET toPayload == Req(r).Method = "POST" /\ PathStartsWithPayload(r)
                toStatus  == ~toPayload /\ Req(r).Path = <<"/">>
            IN  /\ reqs[r].route \in {"payload", "status", "notfound"}
                /\ reqs[r].route = "payload" <=> toPayload
                /\ reqs[r].route = "status" <=> toStatus
                /\ reqs[r].route = "notfound" <=> ~toPayload /\ ~toStatus
                /\ EnteredPayload(r) <=> toPayload
                /\ toStatus => reqs[r].written = <<200>> /\ TasksOf(r) = {}
                /\ ~toPayload /\ ~toStatus =>
                      /\ reqs[r].pc = "done" /\ reqs[r].written = <<404>>
                      /\ TasksOf(r) = {}

\* A GET to "/payload" was answered 404 without entering the pipeline, and a
\* POST to "/" was answered by the status handler.
C13_Witness ==
    \E r1, r2 \in RequestIds :
        /\ Started(r1) /\ Req(r1).Method = "GET" /\ Req(r1).Path = P_payload
        /\ reqs[r1].written = <<404>> /\ ~EnteredPayload(r1)
        /\ Started(r2) /\ Req(r2).Method = "POST" /\ Req(r2).Path = P_root
        /\ reqs[r2].route = "status" /\ reqs[r2].written = <<200>>

\* The checks of the payload pipeline in the order the claim gives.
CheckOrder == <<"read", "sig", "event", "decode", "filter">>

FailsRead(r)   == Req(r).ReadErr
FailsSig(r)    == config.Secret # "" /\ BadSignature(r)
FailsEvent(r)  == EventTypeOf(r) \notin {"ping", "pull_request"}
FailsDecode(r) == EventTypeOf(r) = "pull_request" /\ Req(r).Body \in MalformedBodies

\* C14: the payload pipeline evaluates body read, signature, event type,
\* JSON decode and filter in this order and stops at the first check that
\* fails, which alone fixes the response (500, 401, 400, 400); a request that
\* fails both the signature and the event-type check is answered 401.
C14_CheckOrder ==
    \A r \in RequestIds :
        InPayload(r) =>
            LET n == Len(reqs[r].trace)
            IN  /\ n \in 1..5 /\ reqs[r].trace = SubSeq(CheckOrder, 1, n)
                /\ IF FailsRead(r)
                     THEN reqs[r].written = <<500>> /\ n = 1
                   ELSE IF FailsSig(r)
                     THEN reqs[r].written = <<401>> /\ n = 2
                   ELSE IF FailsEvent(r)
                     THEN reqs[r].written = <<400>> /\ n = 3
                   ELSE IF FailsDecode(r)
                     THEN reqs[r].written = <<400>> /\ n = 4
                   ELSE /\ n = (IF EventTypeOf(r) = "ping" THEN 3 ELSE 5)
                        /\ \A k \in 1..Len(reqs[r].written) : reqs[r].written[k] = 200

\* A request with no signature and event type issue_comment was answered 401
\* after two checks, and one with no signature whose body could not be read
\* was answered 500 after one.
C14_Witness ==
    \E r1, r2 \in RequestIds :
        /\ InPayload(r1) /\ ~FailsRead(r1) /\ FailsSig(r1) /\ FailsEvent(r1)
        /\ reqs[r1].written = <<401>> /\ reqs[r1].trace = <<"read", "sig">>
        /\ InPayload(r2) /\ FailsRead(r2) /\ FailsSig(r2)
        /\ reqs[r2].written = <<500>> /\ reqs[r2].trace = <<"read">>

\* Task i wrote the log line of a failed POST.
LoggedPostFailure(i) ==
    \E k \in 1..Len(tasks[i].log) : tasks[i].log[k] = "Failed to post Slack message"

\* Task i issued its POST and the POST has returned.
PostReturned(i) == tasks[i].pc = "done" /\ tasks[i].sent # <<>>

\* C15: every failed delivery, a transport error as well as a non-2xx answer,
\* leaves a failure log entry for its request before it is dropped.
C15_EveryFailedDeliveryLogged ==
    \A i \in 1..Len(tasks) :
        PostReturned(i) /\ tasks[i].resp # "2xx" => LoggedPostFailure(i)

\* C18: when the POST returned a response the task closed its body exactly
\* once before it ended; when the POST returned an error, and before the
\* POST returns, no response body is closed.
C18_ResponseBodyClosedOnce ==
    \A i \in 1..Len(tasks) :
        /\ tasks[i].pc = "done" /\ tasks[i].resp # "none" => tasks[i].closed = 1
        /\ tasks[i].resp = "none" => tasks[i].closed = 0
        /\ tasks[i].pc # "done" => tasks[i].resp = "none"

\* One task ended after a non-2xx response with the body closed once, another
\* after a transport error with nothing closed.
C18_Witness ==
    \E i, j \in 1..Len(tasks) :
        /\ PostReturned(i) /\ tasks[i].resp = "non2xx" /\ tasks[i].closed = 1
        /\ PostReturned(j) /\ tasks[j].resp = "none" /\ LoggedPostFailure(j)
        /\ tasks[j].closed = 0

\* The title and the URL the sender put into a pull_request event body.
SentTitle(b) == TextOf(Member(Member(b, "pull_request"), "title"))
SentURL(b)   == TextOf(Member(Member(b, "pull_request"), "html_url"))

\* The attachments of the JSON text in a buffer handed to client.Post.
PostedAttachments(b) == Member(b.json, "attachments")

\* The event body task i was started for.
EventOf(i) == Req(tasks[i].req).Body

\* C16: the message formatted for an event has exactly one attachment, whose
\* title is the pull-request title, whose title link is the pull-request URL
\* verbatim, whose fallback is the configured alert message, whose color is
\* "good" and whose text is the fixed call to action; two tasks for the same
\* event under the same configuration format the same message.
C16_MessageFormat ==
    \A i \in 1..Len(tasks) : \A k \in 1..Len(tasks[i].sent) :
        LET atts == PostedAttachments(tasks[i].sent[k])
        IN  /\ atts.t = "array" /\ Len(atts.m) = 1
            /\ TextOf(Member(atts.m[1], "title")) = SentTitle(EventOf(i))
            /\ TextOf(Member(atts.m[1], "title_link")) = SentURL(EventOf(i))
            /\ TextOf(Member(atts.m[1], "fallback")) = config.Message
            /\ TextOf(Member(atts.m[1], "color")) = <<"g","o","o","d">>
            /\ TextOf(Member(atts.m[1], "text")) =
                  <<"R","e","v","i","e","w"," ","m","e"," ","p","l","e","a","s","e">>
            /\ \A j \in 1..Len(tasks) : \A l \in 1..Len(tasks[j].sent) :
                  EventOf(j) = EventOf(i) => tasks[j].sent[l].json = tasks[i].sent[k].json

\* A task started for the pull request "Add docs" handed client.Post a message
\* whose one attachment carries that title and its URL.
C16_Witness ==
    \E i \in 1..Len(tasks) :
        /\ EventOf(i) = B_other /\ Len(tasks[i].sent) = 1
        /\ Len(PostedAttachments(tasks[i].sent[1]).m) = 1
        /\ TextOf(Member(PostedAttachments(tasks[i].sent[1]).m[1], "title")) = S_AddDocs
        /\ TextOf(Member(PostedAttachments(tasks[i].sent[1]).m[1], "title_link")) = S_url2

\* The title and the title link in the k-th body task i handed to client.Post.
PostedTitle(t, k) == TextOf(Member(PostedAttachments(t.sent[k]).m[1], "title"))
PostedLink(t, k)  == TextOf(Member(PostedAttachments(t.sent[k]).m[1], "title_link"))

\* C17: no step changes the notifier configuration, and delivery tasks share
\* no mutable state: a step changes at most one task, a started task keeps
\* its own event, and every message a task sends carries the title and URL
\* of its own event whatever the other tasks do.
C17_ConfigFixedTasksIndependent ==
    [][ /\ config' = config
        /\ Len(tasks') >= Len(tasks)
        /\ \A i \in 1..Len(tasks) :
              /\ tasks'[i].req = tasks[i].req /\ tasks'[i].pr = tasks[i].pr
              /\ tasks'[i] # tasks[i] =>
                    \A j \in 1..Len(tasks) : j # i => tasks'[j] = tasks[j]
        /\ \A i \in 1..Len(tasks') : \A k \in 1..Len(tasks'[i].sent) :
              /\ PostedTitle(tasks'[i], k) = SentTitle(Requests[reqs'[tasks'[i].req].req].Body)
              /\ PostedLink(tasks'[i], k) = SentURL(Requests[reqs'[tasks'[i].req].req].Body)
      ]_vars

\* Two delivery tasks for different pull requests are in client.Post at the
\* same time, each sending the title of its own event.
C17_Witness ==
    \E i, j \in 1..Len(tasks) :
        /\ tasks[i].pc = "posting" /\ tasks[j].pc = "posting"
        /\ EventOf(i) = B_match /\ EventOf(j) = B_other
        /\ PostedTitle(tasks[i], 1) = S_FixBug /\ PostedTitle(tasks[j], 1) = S_AddDocs

\* The notifier init registers: no Secret, no SlackURL.
RegisteredByInit == config.Secret = "" /\ config.SlackURL = ""

\* C19: with the notifier init registers, no payload request is answered 401
\* whatever its X-Hub-Signature header, and every readable pull_request event
\* with a qualifying body starts a delivery task, signed or not.
C19_NoSecretNoVerification ==
    RegisteredByInit =>
        \A r \in RequestIds :
            InPayload(r) =>
                /\ \A k \in 1..Len(reqs[r].written) : reqs[r].written[k] # 401
                /\ ~Req(r).ReadErr => InTrace(r, "event")
                /\ /\ ~Req(r).ReadErr
                   /\ EventTypeOf(r) = "pull_request"
                   /\ Req(r).Body \in {B_match, B_other}
                   => TasksOf(r) # {}

\* Under the notifier init registers, a request with no signature header
\* started a delivery task, and a request signed for another body was
\* answered 200.
C19_Witness ==
    \E r1, r2 \in RequestIds :
        /\ RegisteredByInit
        /\ InPayload(r1) /\ SigOf(r1) = EmptyString /\ Req(r1).Body = B_other
        /\ TasksOf(r1) # {}
        /\ InPayload(r2) /\ SigOf(r2) # EmptyString
        /\ SigOf(r2) # SignatureOf(SenderKey, Req(r2).Body)
        /\ reqs[r2].written = <<200>>

\* C20: when the watched label is the empty string, every decoded
\* pull_request event with action "labeled" and state "open" starts a
\* delivery task whatever its label, an absent label included, and no other
\* event does.
C20_EmptyLabelMatchesEveryLabel ==
    config.Label = <<>> =>
        \A r \in RequestIds :
            InPayload(r) /\ InTrace(r, "filter") =>
                (TasksOf(r) # {} <=>
                    /\ SentAction(Req(r).Body) = <<"l","a","b","e","l","e","d">>
                    /\ SentState(Req(r).Body) = <<"o","p","e","n">>)

\* With the empty watched label, an event labeled "wip" and an event with no
\* label each started a delivery task.
C20_Witness ==
    \E r1, r2 \in RequestIds :
        /\ config.Label = <<>>
        /\ InPayload(r1) /\ Req(r1).Body = B_wip /\ SentLabel(B_wip) = S_wip
        /\ TasksOf(r1) # {}
        /\ InPayload(r2) /\ Req(r2).Body = B_nolabel /\ SentLabel(B_nolabel) = <<>>
        /\ TasksOf(r2) # {}

====
